---- MODULE Spec2Model ----
(***************************************************************************)
(* Model of backend/src/scripts/fetch_yfinance.py: the command-line entry  *)
(* point and fetch_data(ticker, start_date, end_date).                     *)
(*                                                                         *)
(* Strings that the code inspects or builds (tickers, date strings) are    *)
(* sequences of one-character strings.  Exception messages and the usage   *)
(* text are opaque TLA+ strings.  The provider (yfinance) is an opaque     *)
(* collaborator: its answer to a query is a nondeterministic choice among  *)
(* a table of rows and a raised exception.                                 *)
(***************************************************************************)
EXTENDS Integers, Sequences, FiniteSets, TLC

VARIABLES
    argv,        \* sys.argv[1:], the positional arguments
    pc,          \* position of the script
    ticker,      \* fetch_data parameter
    start_date,  \* fetch_data parameter
    end_date,    \* fetch_data parameter, reassigned on lines 15 / 19
    yf_ticker,   \* local of fetch_data
    df,          \* the provider's table, a sequence of rows
    idx,         \* position of the iterrows() loop
    results,     \* local list of fetch_data
    exc,         \* the exception in flight, or NoExc
    ret,         \* the value fetch_data returned, or NoRet
    calls,       \* number of invocations of fetch_data
    queries,     \* the queries received by the provider, in order
    response,    \* what the provider answered to the query
    stdout,      \* the JSON texts printed, in order
    stderr,      \* tracebacks printed by the interpreter
    exitcode     \* process exit status, -1 while running

vars == <<argv, pc, ticker, start_date, end_date, yf_ticker, df, idx, results,
          exc, ret, calls, queries, response, stdout, stderr, exitcode>>

-----------------------------------------------------------------------------
(* Bounds of the model *)

MaxRows == 2     \* longest table the provider returns
MaxArgs == 4     \* largest number of positional arguments

(* datetime.MAXYEAR: datetime + timedelta raises OverflowError beyond it *)
MAXYEAR == 9999

-----------------------------------------------------------------------------
(* Characters and strings *)

Digits == <<"0", "1", "2", "3", "4", "5", "6", "7", "8", "9">>

IsDigit(c) == \E i \in 1..10 : Digits[i] = c

DigitVal(c) == (CHOOSE i \in 1..10 : Digits[i] = c) - 1

IsNonZeroDigit(c) == IsDigit(c) /\ c # "0"

Pad2(n) == <<Digits[(n \div 10) + 1], Digits[(n % 10) + 1]>>

Pad4(n) == <<Digits[((n \div 1000) % 10) + 1], Digits[((n \div 100) % 10) + 1],
             Digits[((n \div 10) % 10) + 1], Digits[(n % 10) + 1]>>

JK == <<".", "J", "K">>

-----------------------------------------------------------------------------
(* Exceptions *)

NoExc == [type |-> "none", msg |-> ""]

Exc(t, m) == [type |-> t, msg |-> m]

(* `except Exception` catches every exception class derived from Exception; *)
(* KeyboardInterrupt derives from BaseException only.                       *)
IsException(e) == e.type \notin {"none", "KeyboardInterrupt"}

(* str(e) *)
StrOfExc(e) == e.msg

-----------------------------------------------------------------------------
(* Calendar: datetime.strptime(s, '%Y-%m-%d'), + timedelta(days=1), strftime *)

IsLeap(y) == (y % 4 = 0) /\ ((y % 100 # 0) \/ (y % 400 = 0))

DaysInMonthNoLeap(y, m) ==
    IF m = 2 THEN 28
    ELSE IF m \in {4, 6, 9, 11} THEN 30 ELSE 31

DaysInMonth(y, m) ==
    IF m = 2 THEN (IF IsLeap(y) THEN 29 ELSE 28)
    ELSE IF m \in {4, 6, 9, 11} THEN 30 ELSE 31

(* Length of the prefix of t the %m pattern 1[0-2]|0[1-9]|[1-9] matches when *)
(* it must be followed by the literal "-"; 0 when no alternative matches.    *)
MonthMatchLen(t) ==
    IF Len(t) >= 3 /\ t[1] = "1" /\ t[2] \in {"0", "1", "2"} /\ t[3] = "-" THEN 2
    ELSE IF Len(t) >= 3 /\ t[1] = "0" /\ IsNonZeroDigit(t[2]) /\ t[3] = "-" THEN 2
    ELSE IF Len(t) >= 2 /\ IsNonZeroDigit(t[1]) /\ t[2] = "-" THEN 1
    ELSE 0

(* Length of the prefix of t the %d pattern                                 *)
(* 3[0-1]|[1-2]\d|0[1-9]|[1-9]| [1-9] matches; 0 when none does.            *)
DayMatchLen(t) ==
    IF Len(t) >= 2 /\ t[1] = "3" /\ t[2] \in {"0", "1"} THEN 2
    ELSE IF Len(t) >= 2 /\ t[1] \in {"1", "2"} /\ IsDigit(t[2]) THEN 2
    ELSE IF Len(t) >= 2 /\ t[1] = "0" /\ IsNonZeroDigit(t[2]) THEN 2
    ELSE IF Len(t) >= 1 /\ IsNonZeroDigit(t[1]) THEN 1
    ELSE IF Len(t) >= 2 /\ t[1] = " " /\ IsNonZeroDigit(t[2]) THEN 2
    ELSE 0

FieldVal(t) ==
    IF Len(t) = 1 THEN DigitVal(t[1])
    ELSE IF t[1] = " " THEN DigitVal(t[2])
    ELSE 10 * DigitVal(t[1]) + DigitVal(t[2])

ParseFail(m) == [ok |-> FALSE, exc |-> Exc("ValueError", m), y |-> 0, m |-> 0, d |-> 0]

(* datetime.strptime(s, '%Y-%m-%d'): the date, or the ValueError raised *)
Strptime(s) ==
    IF ~(Len(s) >= 5 /\ (\A i \in 1..4 : IsDigit(s[i])) /\ s[5] = "-")
    THEN ParseFail("time data does not match format '%Y-%m-%d'")
    ELSE
      LET rest == SubSeq(s, 6, Len(s))
          ml   == MonthMatchLen(rest)
          dtxt == SubSeq(rest, ml + 2, Len(rest))
          dl   == DayMatchLen(dtxt)
      IN  IF ml = 0 \/ dl = 0
          THEN ParseFail("time data does not match format '%Y-%m-%d'")
          ELSE IF dl < Len(dtxt)
          THEN ParseFail("unconverted data remains")
          ELSE
            LET y == 1000 * DigitVal(s[1]) + 100 * DigitVal(s[2])
                       + 10 * DigitVal(s[3]) + DigitVal(s[4])
                m == FieldVal(SubSeq(rest, 1, ml))
                d == FieldVal(dtxt)
            IN  IF y = 0 THEN ParseFail("year 0 is out of range")
                ELSE IF d > DaysInMonth(y, m)
                THEN ParseFail("day is out of range for month")
                ELSE [ok |-> TRUE, exc |-> NoExc, y |-> y, m |-> m, d |-> d]

(* dt + timedelta(days=1): the next date, or the OverflowError raised *)
AddOneDay(dt) ==
    IF dt.d < DaysInMonth(dt.y, dt.m)
    THEN [ok |-> TRUE, exc |-> NoExc, y |-> dt.y, m |-> dt.m, d |-> dt.d + 1]
    ELSE IF dt.m < 12
    THEN [ok |-> TRUE, exc |-> NoExc, y |-> dt.y, m |-> dt.m + 1, d |-> 1]
    ELSE IF dt.y < MAXYEAR
    THEN [ok |-> TRUE, exc |-> NoExc, y |-> dt.y + 1, m |-> 1, d |-> 1]
    ELSE [ok |-> FALSE, exc |-> Exc("OverflowError", "date value out of range"),
          y |-> 0, m |-> 0, d |-> 0]

(* dt.strftime('%Y-%m-%d') for years of four digits *)
Strftime(dt) == Pad4(dt.y) \o <<"-">> \o Pad2(dt.m) \o <<"-">> \o Pad2(dt.d)

(* Lines 14-15, the branch start_date == end_date: the adjusted end date, *)
(* or the exception raised                                               *)
AdjustEndSame(s) ==
    LET p == Strptime(s)
    IN  IF ~p.ok THEN [ok |-> FALSE, exc |-> p.exc, value |-> <<>>]
        ELSE LET n == AddOneDay(p)
             IN  IF ~n.ok THEN [ok |-> FALSE, exc |-> n.exc, value |-> <<>>]
                 ELSE [ok |-> TRUE, exc |-> NoExc, value |-> Strftime(n)]

(* Lines 18-19, the branch start_date != end_date *)
AdjustEndRange(s) ==
    LET p == Strptime(s)
    IN  IF ~p.ok THEN [ok |-> FALSE, exc |-> p.exc, value |-> <<>>]
        ELSE LET n == AddOneDay(p)
             IN  IF ~n.ok THEN [ok |-> FALSE, exc |-> n.exc, value |-> <<>>]
                 ELSE [ok |-> TRUE, exc |-> NoExc, value |-> Strftime(n)]

-----------------------------------------------------------------------------
(* Cells of the provider's table and their conversions *)

(* A cell is an integer, a float (kept in tenths), NaN or None *)
In(n) == [t |-> "int", v |-> n]
Fl(n) == [t |-> "float", v |-> n]
NaN   == [t |-> "nan", v |-> 0]
None  == [t |-> "none", v |-> 0]

(* float(x) *)
ToFloat(x) ==
    IF x.t = "int" THEN [ok |-> TRUE, exc |-> NoExc, val |-> Fl(10 * x.v)]
    ELSE IF x.t \in {"float", "nan"} THEN [ok |-> TRUE, exc |-> NoExc, val |-> x]
    ELSE [ok |-> FALSE, val |-> None,
          exc |-> Exc("TypeError", "float() argument must be a string or a real number, not 'NoneType'")]

(* int(x): truncation towards zero *)
ToInt(x) ==
    IF x.t = "int" THEN [ok |-> TRUE, exc |-> NoExc, val |-> x]
    ELSE IF x.t = "float"
    THEN [ok |-> TRUE, exc |-> NoExc,
          val |-> In(IF x.v >= 0 THEN x.v \div 10 ELSE -((-x.v) \div 10))]
    ELSE IF x.t = "nan"
    THEN [ok |-> FALSE, val |-> None,
          exc |-> Exc("ValueError", "cannot convert float NaN to integer")]
    ELSE [ok |-> FALSE, val |-> None,
          exc |-> Exc("TypeError", "int() argument must be a string, a bytes-like object or a real number, not 'NoneType'")]

(* The Date cell of a row: a timestamp, or NaT *)
Ts(y, m, d) == [nat |-> FALSE, y |-> y, m |-> m, d |-> d]
NaT == [nat |-> TRUE, y |-> 0, m |-> 0, d |-> 0]

(* row['Date'].strftime('%Y-%m-%d') *)
DateToStr(x) ==
    IF x.nat THEN [ok |-> FALSE, val |-> <<>>,
                   exc |-> Exc("ValueError", "NaTType does not support strftime")]
    ELSE [ok |-> TRUE, exc |-> NoExc, val |-> Strftime(x)]

NoBar == [date |-> <<>>, open |-> None, high |-> None, low |-> None,
          close |-> None, volume |-> None]

RowToBarSwapped(row) ==
    LET dt == DateToStr(row.Date)
        o  == ToFloat(row.Open)
        h  == ToFloat(row.Low)
        l  == ToFloat(row.High)
        c  == ToFloat(row.Close)
        v  == ToInt(row.Volume)
    IN  IF ~dt.ok THEN [ok |-> FALSE, exc |-> dt.exc, bar |-> NoBar]
        ELSE IF ~o.ok THEN [ok |-> FALSE, exc |-> o.exc, bar |-> NoBar]
        ELSE IF ~h.ok THEN [ok |-> FALSE, exc |-> h.exc, bar |-> NoBar]
        ELSE IF ~l.ok THEN [ok |-> FALSE, exc |-> l.exc, bar |-> NoBar]
        ELSE IF ~c.ok THEN [ok |-> FALSE, exc |-> c.exc, bar |-> NoBar]
        ELSE IF ~v.ok THEN [ok |-> FALSE, exc |-> v.exc, bar |-> NoBar]
        ELSE [ok |-> TRUE, exc |-> NoExc,
              bar |-> [date |-> dt.val, open |-> o.val, high |-> h.val,
                       low |-> l.val, close |-> c.val, volume |-> v.val]]

(* Lines 34-41: the dict built from one row, its fields evaluated in the   *)
(* order written; the first conversion that raises ends the evaluation.    *)
RowToBar(row) ==
    LET dt == DateToStr(row.Date)
        o  == ToFloat(row.Open)
        h  == ToFloat(row.High)
        l  == ToFloat(row.Low)
        c  == ToFloat(row.Close)
        v  == ToInt(row.Volume)
    IN  IF ~dt.ok THEN [ok |-> FALSE, exc |-> dt.exc, bar |-> NoBar]
        ELSE IF ~o.ok THEN [ok |-> FALSE, exc |-> o.exc, bar |-> NoBar]
        ELSE IF ~h.ok THEN [ok |-> FALSE, exc |-> h.exc, bar |-> NoBar]
        ELSE IF ~l.ok THEN [ok |-> FALSE, exc |-> l.exc, bar |-> NoBar]
        ELSE IF ~c.ok THEN [ok |-> FALSE, exc |-> c.exc, bar |-> NoBar]
        ELSE IF ~v.ok THEN [ok |-> FALSE, exc |-> v.exc, bar |-> NoBar]
        ELSE [ok |-> TRUE, exc |-> NoExc,
              bar |-> [date |-> dt.val, open |-> o.val, high |-> h.val,
                       low |-> l.val, close |-> c.val, volume |-> v.val]]

-----------------------------------------------------------------------------
(* Values returned and printed *)

NoRet == [kind |-> "none", bars |-> <<>>, error |-> ""]

(* a list of Bars *)
BarList(bs) == [kind |-> "list", bars |-> bs, error |-> ""]

(* Line 44: {"error": str(e)} *)
ErrorDescriptor(e) == [kind |-> "error", bars |-> <<>>, error |-> StrOfExc(e)]

(* Line 48: the usage error descriptor *)
UsageError ==
    [kind |-> "error", bars |-> <<>>,
     error |-> "Usage: python fetch_yfinance.py TICKER START_DATE END_DATE"]

(* json.dumps(v): a list becomes a JSON array, a dict a JSON object *)
JsonDumps(v) ==
    IF v.kind = "list" THEN [json |-> "array", items |-> v.bars, error |-> ""]
    ELSE [json |-> "object", items |-> <<>>, error |-> v.error]

YfTickerOnce(t) ==
    IF Len(t) >= 3 /\ SubSeq(t, Len(t) - 2, Len(t)) = JK THEN t ELSE t \o JK

(* Line 9: f"{ticker}.JK" *)
YfTicker(t) == t \o JK

-----------------------------------------------------------------------------
(* Inputs of the model *)

D(y, m, d) == Strftime([y |-> y, m |-> m, d |-> d])

BBCA == <<"B", "B", "C", "A">>

Tickers == {<<>>, BBCA, BBCA \o JK}

StartDates ==
    {D(2024, 1, 2), D(2024, 2, 28), D(2024, 12, 31),
     <<"2", "0", "2", "4", "-", "0", "2", "-", "3", "0">>,
     <<>>}

EndDates ==
    {D(2024, 1, 2), D(2024, 1, 5), D(2024, 1, 31), D(2024, 2, 28),
     D(2024, 2, 29), D(2023, 2, 28), D(2023, 12, 31), D(2024, 12, 31),
     D(MAXYEAR, 12, 31),
     <<"2", "0", "2", "4", "-", "1", "-", "5">>,
     <<"2", "0", "2", "4", "-", "0", "2", "-", "3", "0">>,
     <<"2", "0", "2", "3", "-", "0", "2", "-", "2", "9">>,
     <<"2", "0", "2", "4", "0", "1", "0", "5">>,
     <<"2", "0", "2", "4", "-", "0", "1", "-", "0", "5", "x">>,
     <<>>}

ExtraArg == <<"x">>

ArgvSet ==
    {SubSeq(<<t, s, e>> \o [i \in 1..MaxArgs |-> ExtraArg], 1, n) :
        t \in Tickers, s \in StartDates, e \in EndDates, n \in 0..MaxArgs}

Row(dt, o, h, l, c, v) ==
    [Date |-> dt, Open |-> o, High |-> h, Low |-> l, Close |-> c, Volume |-> v]

Rows ==
    {Row(Ts(2024, 1, 2), Fl(91250), Fl(92000), Fl(90005), Fl(91000), In(500)),
     Row(Ts(2024, 1, 3), In(9100), In(9150), In(9050), Fl(91255), Fl(12345)),
     Row(Ts(2024, 1, 4), NaN, NaN, NaN, NaN, In(0)),
     Row(Ts(2024, 1, 5), Fl(91000), Fl(91500), Fl(90500), Fl(91000), NaN),
     Row(Ts(2024, 1, 8), Fl(91000), None, Fl(90500), Fl(91000), In(600)),
     Row(NaT, Fl(91000), Fl(91500), Fl(90500), Fl(91000), In(700))}

Tables == UNION {[1..n -> Rows] : n \in 0..MaxRows}

ProviderExceptions ==
    {Exc("ConnectionError", "Connection refused"),
     Exc("ValueError", ""),
     Exc("KeyboardInterrupt", "")}

NoResponse == [kind |-> "none", table |-> <<>>, exc |-> NoExc]

(* stock.history(...) returns a table or raises *)
ProviderOutcomes ==
    {[kind |-> "table", table |-> t, exc |-> NoExc] : t \in Tables}
    \cup {[kind |-> "raise", table |-> <<>>, exc |-> e] : e \in ProviderExceptions}

-----------------------------------------------------------------------------
(* The script *)

Init ==
    /\ argv \in ArgvSet
    /\ pc = "main"
    /\ ticker = <<>>
    /\ start_date = <<>>
    /\ end_date = <<>>
    /\ yf_ticker = <<>>
    /\ df = <<>>
    /\ idx = 0
    /\ results = <<>>
    /\ exc = NoExc
    /\ ret = NoRet
    /\ calls = 0
    /\ queries = <<>>
    /\ response = NoResponse
    /\ stdout = <<>>
    /\ stderr = <<>>
    /\ exitcode = -1

MainUsageExitZero ==
    /\ pc = "main"
    /\ Len(argv) < 3
    /\ stdout' = Append(stdout, JsonDumps(UsageError))
    /\ exitcode' = 0
    /\ pc' = "exited"
    /\ UNCHANGED <<argv, ticker, start_date, end_date, yf_ticker, df, idx,
                   results, exc, ret, calls, queries, response, stderr>>

(* Lines 47-49: len(sys.argv) < 4, print the usage error, sys.exit(1) *)
MainUsage ==
    /\ pc = "main"
    /\ Len(argv) < 3
    /\ stdout' = Append(stdout, JsonDumps(UsageError))
    /\ exitcode' = 1
    /\ pc' = "exited"
    /\ UNCHANGED <<argv, ticker, start_date, end_date, yf_ticker, df, idx,
                   results, exc, ret, calls, queries, response, stderr>>

(* Lines 51-55: the call fetch_data(sys.argv[1], sys.argv[2], sys.argv[3]) *)
MainCall ==
    /\ pc = "main"
    /\ ~(Len(argv) < 3)
    /\ ticker' = argv[1]
    /\ start_date' = argv[2]
    /\ end_date' = argv[3]
    /\ calls' = calls + 1
    /\ pc' = "suffix"
    /\ UNCHANGED <<argv, yf_ticker, df, idx, results, exc, ret, queries,
                   response, stdout, stderr, exitcode>>

(* Line 9 *)
Suffix ==
    /\ pc = "suffix"
    /\ yf_ticker' = YfTicker(ticker)
    /\ pc' = "adjust"
    /\ UNCHANGED <<argv, ticker, start_date, end_date, df, idx, results, exc,
                   ret, calls, queries, response, stdout, stderr, exitcode>>

(* Lines 13-15: the dates are equal.  The statements stand before the try, *)
(* so an exception they raise leaves fetch_data.                           *)
AdjustSame ==
    /\ pc = "adjust"
    /\ start_date = end_date
    /\ LET a == AdjustEndSame(end_date)
       IN  IF a.ok
           THEN /\ end_date' = a.value
                /\ pc' = "retrieve"
                /\ exc' = exc
           ELSE /\ end_date' = end_date
                /\ pc' = "propagated"
                /\ exc' = a.exc
    /\ UNCHANGED <<argv, ticker, start_date, yf_ticker, df, idx, results, ret,
                   calls, queries, response, stdout, stderr, exitcode>>

(* Lines 16-19: the dates differ *)
AdjustRange ==
    /\ pc = "adjust"
    /\ start_date # end_date
    /\ LET a == AdjustEndRange(end_date)
       IN  IF a.ok
           THEN /\ end_date' = a.value
                /\ pc' = "retrieve"
                /\ exc' = exc
           ELSE /\ end_date' = end_date
                /\ pc' = "propagated"
                /\ exc' = a.exc
    /\ UNCHANGED <<argv, ticker, start_date, yf_ticker, df, idx, results, ret,
                   calls, queries, response, stdout, stderr, exitcode>>

RetrieveWithRetry ==
    /\ pc = "retrieve"
    /\ \E o \in ProviderOutcomes :
         /\ queries' = Append(queries, [symbol |-> yf_ticker,
                                        start |-> start_date, end |-> end_date])
         /\ response' = o
         /\ IF o.kind = "table"
            THEN /\ df' = o.table
                 /\ pc' = "empty_check"
                 /\ exc' = exc
            ELSE /\ df' = df
                 /\ pc' = IF Len(queries) = 0 THEN "retrieve" ELSE "except"
                 /\ exc' = o.exc
    /\ UNCHANGED <<argv, ticker, start_date, end_date, yf_ticker, idx, results,
                   ret, calls, stdout, stderr, exitcode>>

(* Lines 22-23: yf.Ticker(yf_ticker).history(start=start_date, end=end_date) *)
Retrieve ==
    /\ pc = "retrieve"
    /\ \E o \in ProviderOutcomes :
         /\ queries' = Append(queries, [symbol |-> yf_ticker,
                                        start |-> start_date, end |-> end_date])
         /\ response' = o
         /\ IF o.kind = "table"
            THEN /\ df' = o.table
                 /\ pc' = "empty_check"
                 /\ exc' = exc
            ELSE /\ df' = df
                 /\ pc' = "except"
                 /\ exc' = o.exc
    /\ UNCHANGED <<argv, ticker, start_date, end_date, yf_ticker, idx, results,
                   ret, calls, stdout, stderr, exitcode>>

EmptyCheckAsError ==
    /\ pc = "empty_check"
    /\ IF Len(df) = 0
       THEN /\ ret' = ErrorDescriptor(Exc("ValueError", "No data found"))
            /\ pc' = "returned"
            /\ UNCHANGED <<idx, results>>
       ELSE /\ results' = <<>>
            /\ idx' = 1
            /\ pc' = "loop"
            /\ ret' = ret
    /\ UNCHANGED <<argv, ticker, start_date, end_date, yf_ticker, df, exc,
                   calls, queries, response, stdout, stderr, exitcode>>

(* Lines 25-32: return [] when df.empty, else reset_index and results = [] *)
EmptyCheck ==
    /\ pc = "empty_check"
    /\ IF Len(df) = 0
       THEN /\ ret' = BarList(<<>>)
            /\ pc' = "returned"
            /\ UNCHANGED <<idx, results>>
       ELSE /\ results' = <<>>
            /\ idx' = 1
            /\ pc' = "loop"
            /\ ret' = ret
    /\ UNCHANGED <<argv, ticker, start_date, end_date, yf_ticker, df, exc,
                   calls, queries, response, stdout, stderr, exitcode>>

LoopRowSkipBad ==
    /\ pc = "loop"
    /\ idx <= Len(df)
    /\ LET b == RowToBar(df[idx])
       IN  /\ results' = IF b.ok THEN Append(results, b.bar) ELSE results
           /\ idx' = idx + 1
           /\ pc' = pc
           /\ exc' = exc
    /\ UNCHANGED <<argv, ticker, start_date, end_date, yf_ticker, df, ret,
                   calls, queries, response, stdout, stderr, exitcode>>

(* Lines 33-41: one iteration of the loop over df.iterrows() *)
LoopRow ==
    /\ pc = "loop"
    /\ idx <= Len(df)
    /\ LET b == RowToBar(df[idx])
       IN  IF b.ok
           THEN /\ results' = Append(results, b.bar)
                /\ idx' = idx + 1
                /\ pc' = pc
                /\ exc' = exc
           ELSE /\ results' = results
                /\ idx' = idx
                /\ pc' = "except"
                /\ exc' = b.exc
    /\ UNCHANGED <<argv, ticker, start_date, end_date, yf_ticker, df, ret,
                   calls, queries, response, stdout, stderr, exitcode>>

(* Line 42: return results *)
LoopEnd ==
    /\ pc = "loop"
    /\ idx > Len(df)
    /\ ret' = BarList(results)
    /\ pc' = "returned"
    /\ UNCHANGED <<argv, ticker, start_date, end_date, yf_ticker, df, idx,
                   results, exc, calls, queries, response, stdout, stderr,
                   exitcode>>

(* Lines 43-44: except Exception as e: return {"error": str(e)}; an       *)
(* exception the clause does not match leaves fetch_data.                 *)
Except ==
    /\ pc = "except"
    /\ IF IsException(exc)
       THEN /\ ret' = ErrorDescriptor(exc)
            /\ exc' = NoExc
            /\ pc' = "returned"
       ELSE /\ ret' = ret
            /\ exc' = exc
            /\ pc' = "propagated"
    /\ UNCHANGED <<argv, ticker, start_date, end_date, yf_ticker, df, idx,
                   results, calls, queries, response, stdout, stderr, exitcode>>

MainPrintExitOnError ==
    /\ pc = "returned"
    /\ stdout' = Append(stdout, JsonDumps(ret))
    /\ exitcode' = IF ret.kind = "error" THEN 1 ELSE 0
    /\ pc' = "exited"
    /\ UNCHANGED <<argv, ticker, start_date, end_date, yf_ticker, df, idx,
                   results, exc, ret, calls, queries, response, stderr>>

(* Line 56: print(json.dumps(data)), then the script ends with status 0 *)
MainPrint ==
    /\ pc = "returned"
    /\ stdout' = Append(stdout, JsonDumps(ret))
    /\ exitcode' = 0
    /\ pc' = "exited"
    /\ UNCHANGED <<argv, ticker, start_date, end_date, yf_ticker, df, idx,
                   results, exc, ret, calls, queries, response, stderr>>

(* Line 55: an exception leaving fetch_data is handled by nothing in the  *)
(* script; the interpreter prints the traceback to stderr and exits with  *)
(* status 1 (130 for KeyboardInterrupt) without reaching line 56.         *)
Uncaught ==
    /\ pc = "propagated"
    /\ stderr' = Append(stderr, exc)
    /\ exitcode' = IF exc.type = "KeyboardInterrupt" THEN 130 ELSE 1
    /\ pc' = "exited"
    /\ UNCHANGED <<argv, ticker, start_date, end_date, yf_ticker, df, idx,
                   results, exc, ret, calls, queries, response, stdout>>

Next ==
    \/ MainUsage
    \/ MainCall
    \/ Suffix
    \/ AdjustSame
    \/ AdjustRange
    \/ Retrieve
    \/ EmptyCheck
    \/ LoopRow
    \/ LoopEnd
    \/ Except
    \/ MainPrint
    \/ Uncaught

Spec == Init /\ [][Next]_vars

-----------------------------------------------------------------------------
(* Vocabulary of the properties *)

Finished == pc = "exited"

Returned == pc \in {"returned", "exited"} /\ ret.kind # "none"

ThreeArgs == Len(argv) >= 3

MonthLengths == <<31, 28, 31, 30, 31, 30, 31, 31, 30, 31, 30, 31>>

DaysBefore == <<0, 31, 59, 90, 120, 151, 181, 212, 243, 273, 304, 334>>

(* s is a calendar date written YYYY-MM-DD, zero padded *)
IsDateText(s) ==
    /\ Len(s) = 10
    /\ \A i \in {1, 2, 3, 4, 6, 7, 9, 10} : IsDigit(s[i])
    /\ s[5] = "-" /\ s[8] = "-"
    /\ LET y == 1000 * DigitVal(s[1]) + 100 * DigitVal(s[2])
                  + 10 * DigitVal(s[3]) + DigitVal(s[4])
           m == 10 * DigitVal(s[6]) + DigitVal(s[7])
           d == 10 * DigitVal(s[9]) + DigitVal(s[10])
       IN  /\ y >= 1
           /\ m \in 1..12
           /\ d >= 1
           /\ d <= (IF m = 2 /\ IsLeap(y) THEN 29 ELSE MonthLengths[m])

(* The number of the day s names, counted from 0001-01-01 *)
DayNumber(s) ==
    LET y == 1000 * DigitVal(s[1]) + 100 * DigitVal(s[2])
               + 10 * DigitVal(s[3]) + DigitVal(s[4])
        m == 10 * DigitVal(s[6]) + DigitVal(s[7])
        d == 10 * DigitVal(s[9]) + DigitVal(s[10])
    IN  365 * (y - 1) + ((y - 1) \div 4) - ((y - 1) \div 100) + ((y - 1) \div 400)
          + DaysBefore[m] + (IF m > 2 /\ IsLeap(y) THEN 1 ELSE 0) + d

(* Every conversion of lines 35-40 succeeds on the row *)
RowConverts(row) ==
    /\ ~row.Date.nat
    /\ \A c \in {row.Open, row.High, row.Low, row.Close} : c.t # "none"
    /\ row.Volume.t \in {"int", "float"}

(* The float f is the number in cell c *)
FloatOf(f, c) ==
    \/ c.t = "int" /\ f.t = "float" /\ f.v = 10 * c.v
    \/ c.t = "float" /\ f = c
    \/ c.t = "nan" /\ f.t = "nan"

(* The integer n is the number in cell c, its fraction dropped *)
IntOf(n, c) ==
    /\ n.t = "int"
    /\ \/ c.t = "int" /\ n.v = c.v
       \/ c.t = "float" /\ c.v >= 0 /\ 10 * n.v <= c.v /\ c.v < 10 * n.v + 10
       \/ c.t = "float" /\ c.v < 0 /\ 10 * n.v >= c.v /\ c.v > 10 * n.v - 10

DateTextOf(c) == Pad4(c.y) \o <<"-">> \o Pad2(c.m) \o <<"-">> \o Pad2(c.d)

-----------------------------------------------------------------------------
(* Properties *)

(* C1: no exception propagates out of fetch_data: whatever the ticker and *)
(* the date strings, a call that has ended has returned a sequence of     *)
(* Bars or an error descriptor.                                           *)
C1_NoExceptionPropagates ==
    calls > 0 => /\ pc # "propagated"
                 /\ (Finished => ret.kind \in {"list", "error"})

(* C2: for valid YYYY-MM-DD start and end dates, in any order, the query  *)
(* sent to the provider has the caller's start date unchanged and the     *)
(* caller's end date plus exactly one calendar day, in both branches.     *)
C2_QuerySpan ==
    (ThreeArgs /\ Len(queries) > 0 /\ IsDateText(argv[2]) /\ IsDateText(argv[3])) =>
            \A i \in 1..Len(queries) :
                /\ queries[i].start = argv[2]
                /\ IsDateText(queries[i].end)
                /\ DayNumber(queries[i].end) = DayNumber(argv[3]) + 1

C2_Witness ==
    /\ Len(queries) = 1
    /\ argv[2] = D(2024, 12, 31)
    /\ argv[3] = D(2024, 12, 31)
    /\ queries[1].end = D(2025, 1, 1)

(* C3, as stated: if the provider raises for any reason, the process      *)
(* exits with code 0 and stdout holds only the JSON object {"error": s},  *)
(* s the exception's message and non-empty.                               *)
C3_ProviderRaisesOriginal ==
    (Finished /\ response.kind = "raise") =>
        /\ exitcode = 0
        /\ stdout = <<[json |-> "object", items |-> <<>>, error |-> response.exc.msg]>>
        /\ response.exc.msg # ""

(* C3, amended: if the provider raises an exception of a class derived    *)
(* from Exception, the process exits with code 0 and stdout holds only    *)
(* the JSON object {"error": s}, s the exception's message, which may be  *)
(* the empty string.                                                      *)
C3_ProviderRaises ==
    (Finished /\ response.kind = "raise" /\ IsException(response.exc)) =>
        /\ exitcode = 0
        /\ stdout = <<[json |-> "object", items |-> <<>>, error |-> response.exc.msg]>>

C3_Witness ==
    /\ Finished
    /\ response.kind = "raise"
    /\ response.exc = Exc("ValueError", "")
    /\ stdout = <<[json |-> "object", items |-> <<>>, error |-> ""]>>

(* C4: with fewer than three positional arguments the process prints the  *)
(* usage error descriptor and exits with code 1; fetch_data is never      *)
(* invoked and the provider never queried.                                *)
C4_UsageError ==
    ~ThreeArgs =>
        /\ calls = 0
        /\ queries = <<>>
        /\ Finished =>
              /\ exitcode = 1
              /\ stdout = <<[json |-> "object", items |-> <<>>,
                             error |-> "Usage: python fetch_yfinance.py TICKER START_DATE END_DATE"]>>

C4_Witness == Finished /\ Len(argv) = 2 /\ Len(stdout) = 1

(* C5: with at least three positional arguments the process invokes       *)
(* fetch_data once, prints its result as exactly one JSON value and exits *)
(* with status 0, whatever the arguments' content.                        *)
C5_ThreeArgsExitZero ==
    (Finished /\ ThreeArgs) =>
        /\ calls = 1
        /\ ret.kind \in {"list", "error"}
        /\ stdout = <<JsonDumps(ret)>>
        /\ exitcode = 0

(* C6: when the provider returns a table with no rows, fetch_data returns *)
(* the empty sequence and never an error descriptor.                      *)
C6_EmptyTable ==
    (pc \in {"returned", "exited"} /\ response.kind = "table"
        /\ Len(response.table) = 0) =>
            ret = [kind |-> "list", bars |-> <<>>, error |-> ""]

C6_Witness ==
    /\ pc = "returned"
    /\ response.kind = "table"
    /\ response.table = <<>>
    /\ ret.kind = "list"

(* C7: the symbol queried is the raw ticker followed by ".JK", also when  *)
(* the ticker is empty or already ends in ".JK".                          *)
C7_SymbolSuffix ==
    \A i \in 1..Len(queries) :
        queries[i].symbol = argv[1] \o <<".", "J", "K">>

C7_Witness ==
    /\ Len(queries) = 1
    /\ argv[1] = <<"B", "B", "C", "A", ".", "J", "K">>
    /\ queries[1].symbol = <<"B", "B", "C", "A", ".", "J", "K", ".", "J", "K">>

(* C8: no partial results: if converting a row of the table raises,       *)
(* fetch_data returns only the error descriptor and none of the Bars      *)
(* converted before; a returned sequence has a Bar for every row.         *)
C8_NoPartialResults ==
    (Returned /\ response.kind = "table") =>
        /\ (\E i \in 1..Len(response.table) : ~RowConverts(response.table[i])) =>
               /\ ret.kind = "error"
               /\ ret.bars = <<>>
               /\ Finished => stdout = <<[json |-> "object", items |-> <<>>,
                                          error |-> ret.error]>>
        /\ ret.kind = "list" => Len(ret.bars) = Len(response.table)

C8_Witness ==
    /\ pc = "returned"
    /\ Len(response.table) = 2
    /\ RowConverts(response.table[1])
    /\ ~RowConverts(response.table[2])
    /\ Len(results) = 1
    /\ ret.kind = "error"

(* C9: on success the returned sequence has one Bar per row of the table, *)
(* in the rows' order, each Bar's fields taken from that row's cells.     *)
C9_OneBarPerRow ==
    (Returned /\ ret.kind = "list" /\ response.kind = "table") =>
        /\ Len(ret.bars) = Len(response.table)
        /\ \A i \in 1..Len(response.table) :
              LET bar == ret.bars[i]
                  row == response.table[i]
              IN  /\ ~row.Date.nat
                  /\ bar.date = DateTextOf(row.Date)
                  /\ FloatOf(bar.open, row.Open)
                  /\ FloatOf(bar.high, row.High)
                  /\ FloatOf(bar.low, row.Low)
                  /\ FloatOf(bar.close, row.Close)
                  /\ IntOf(bar.volume, row.Volume)

C9_Witness ==
    /\ pc = "returned"
    /\ ret.kind = "list"
    /\ Len(ret.bars) = 2
    /\ response.table[1] # response.table[2]
    /\ response.table[2].Volume.t = "float"

(* C10: the provider is queried at most once per invocation: exactly once *)
(* when fetch_data reaches the retrieval step, never again after the      *)
(* query raised or returned an empty table, and not at all when the run   *)
(* ends with a usage error or fails before the retrieval step.            *)
C10_AtMostOneQuery ==
    /\ Len(queries) <= 1
    /\ pc \in {"empty_check", "loop", "except", "returned"} => Len(queries) = 1
    /\ (Finished /\ ThreeArgs) =>
          Len(queries) = (IF AdjustEndRange(argv[3]).ok THEN 1 ELSE 0)
    /\ (Finished /\ ~ThreeArgs) => Len(queries) = 0

C10_Witness ==
    /\ Finished
    /\ response.kind = "raise"
    /\ Len(queries) = 1

====
